---- MODULE Spec2Model ----
(***************************************************************************)
(* A model of the news summarizer's response cache (cache.py), of its      *)
(* article store (database.py), of the summarizer pipeline that sits on    *)
(* top of them and of the cost ledger. The cache and the store are         *)
(* translated from cache.py and database.py; the pipeline and the ledger   *)
(* follow their written contract (sections 4.2 and 4.4 of the design).     *)
(*                                                                         *)
(* Python values are modelled as tagged records:                           *)
(*   a dict          [kind |-> "dict",   entries |-> <<[url, result], ..>>]*)
(*                   (insertion ordered, as Python dicts are)              *)
(*   a list          [kind |-> "list",   entries |-> <<>>]                 *)
(*   an int/None/... [kind |-> "scalar", entries |-> <<>>]                 *)
(* The backing file is [kind, doc]: kind says what open()/read() do with   *)
(* it, doc is the JSON document the text parses to.                        *)
(***************************************************************************)
EXTENDS Integers, Sequences, FiniteSets, TLC

\* ------------------------------------------------------------------ bounds
MaxGets == 2
MaxLookups == 4
MaxSummarize == 3
MaxRequests == 3
MaxSaves == 2
MaxChunks == 3
MaxWrites == 3

\* ------------------------------------------------------------ value domains
URLS == {"u1", "u2"}

Results ==
    { [summary |-> "s1", sentiment |-> "positive"],
      [summary |-> "s2", sentiment |-> "negative"] }

\* outcomes of one _save() call: the write went through, makedirs()/open()
\* raised before the file was touched, or open() truncated the file and
\* the write/close raised afterwards
SaveOutcomes == {"ok", "fail_open", "fail_write"}

VARIABLES
    inst,       \* "live": a ResponseCache exists; "failed": __init__ raised
    cache,      \* self._cache
    file,       \* the backing file response_cache.json
    hits,       \* self.stats.hits
    misses,     \* self.stats.misses
    ret,        \* outcome of the last call: what it returned or raised
    rate,       \* last value read from stats.hit_rate, as <<num, den>>
    gets,       \* history: number of get() calls made on this instance
    lastSet,    \* history: per URL, the value of the most recent set() that
                \*   stored it on this instance and was not cleared since
    durable,    \* history: per URL, "set" once a set(url) has returned
                \*   normally, "cleared" once a clear() has returned normally
                \*   and set(url) was not called since, else "unknown"
    lastOp      \* history: the call that produced this state

cacheVars == <<inst, cache, file, hits, misses, ret, rate,
               gets, lastSet, durable, lastOp>>

VARIABLES
    openai_calls,     \* calls made to LLMProviders.ask_openai
    anthropic_calls,  \* calls made to LLMProviders.ask_anthropic
    requests,         \* CostTracker.requests, the ledger
    total_cost,       \* CostTracker.total_cost
    summary,          \* the last value returned by CostTracker.get_summary
    db,               \* the article store: per URL the record saved for it
    done,             \* history: per URL, the result a summarize_article
                      \*   call returned in this process since the last clear
    before            \* history: the call counts, the ledger and done[url]
                      \*   as the last summarize_article(url) call found them

pipeVars == <<openai_calls, anthropic_calls, requests, total_cost, summary,
              db, done, before>>

VARIABLES
    batch,      \* the articles (their URLs) handed to process_articles
    pos,        \* the article process_articles is at, 0 when none is running
    results,    \* the list process_articles builds and returns
    outcomes,   \* history: per attempted article, its URL and how
                \*   summarize_article ended for it
    count       \* the count fetch_articles reports

batchVars == <<batch, pos, results, outcomes, count>>

VARIABLES
    rows,       \* table articles as the connection sees it
    disk,       \* table articles as committed to the database file
    seq,        \* sqlite_sequence: the largest id the table has handed out
    clock,      \* the last value read from datetime.now
    calls,      \* history: number of save_article / save_articles calls
    saved,      \* history: per URL, the content last written for it
    issued,     \* history: the ids handed out, in the order of the writes
    retired,    \* history: the ids of the records that were replaced
    failed      \* history: the save_articles calls (their numbers) that raised

storeVars == <<rows, disk, seq, clock, calls, saved, issued, retired, failed>>

VARIABLES
    peer,       \* a second ResponseCache on the same cache_dir: its liveness,
                \*   its self._cache, its stats and the number of its gets
    actor,      \* history: the instance (1 or 2) the last call was made on
    seen,       \* history: per instance and URL, the entry the instance
                \*   loaded at its construction or stored itself since
    writer,     \* history: the instance whose set or clear last rewrote the
                \*   file, and whether no persist step has failed since
    writes      \* history: number of set and clear calls made on the two
                \*   instances

peerVars == <<peer, actor, seen, writer, writes>>

\* ---------------------------------------------------------- return values
Returned(v) == [kind |-> "value", val |-> v]
ReturnedNone == [kind |-> "None"]
Raised(e) == [kind |-> "raise", exc |-> e]

NoEntry == [set |-> FALSE]
Entry(r) == [set |-> TRUE, val |-> r]

\* ------------------------------------------------------------ python dicts
EmptyDict == [kind |-> "dict", entries |-> <<>>]
EmptyList == [kind |-> "list", entries |-> <<>>]
Scalar == [kind |-> "scalar", entries |-> <<>>]

\* position of url in an insertion-ordered dict, 0 when absent
IndexOf(d, url) ==
    IF \E i \in 1..Len(d.entries) : d.entries[i].url = url
    THEN CHOOSE i \in 1..Len(d.entries) : d.entries[i].url = url
    ELSE 0

\* url in self._cache
Contains(d, url) == IndexOf(d, url) # 0

\* self._cache[url]
Lookup(d, url) == d.entries[IndexOf(d, url)].result

\* a store that keeps the value of a key that is already there
StoreKeepsFirst(d, url, result) ==
    IF Contains(d, url)
    THEN d
    ELSE [d EXCEPT !.entries = Append(@, [url |-> url, result |-> result])]

\* self._cache[url] = result : an existing key keeps its position
Store(d, url, result) ==
    IF Contains(d, url)
    THEN [d EXCEPT !.entries[IndexOf(d, url)] = [url |-> url, result |-> result]]
    ELSE [d EXCEPT !.entries = Append(@, [url |-> url, result |-> result])]

\* ------------------------------------------------------------------- json
\* json.dump of one result: an object with the result's two members
DumpResult(r) ==
    [t |-> "object",
     members |-> << <<"summary", r.summary>>, <<"sentiment", r.sentiment>> >>]

\* the value of member key of an object document (the last one wins)
Member(doc, key) ==
    LET I == {i \in 1..Len(doc.members) : doc.members[i][1] = key}
    IN  doc.members[CHOOSE i \in I : \A j \in I : j <= i][2]

LoadResult(doc) ==
    [summary |-> Member(doc, "summary"), sentiment |-> Member(doc, "sentiment")]

\* a dump that writes the first entry only
DumpFirstOnly(d) ==
    [t |-> "object",
     members |-> [i \in 1..(IF Len(d.entries) > 0 THEN 1 ELSE 0) |->
                    <<d.entries[i].url, DumpResult(d.entries[i].result)>>]]

\* json.dump(self._cache, f, indent=2)
Dump(d) ==
    [t |-> "object",
     members |-> [i \in 1..Len(d.entries) |->
                    <<d.entries[i].url, DumpResult(d.entries[i].result)>>]]

\* json.load(f) of a document: whatever JSON value the text denotes
LoadDoc(doc) ==
    CASE doc.t = "object" ->
            [kind |-> "dict",
             entries |-> [i \in 1..Len(doc.members) |->
                            [url |-> doc.members[i][1],
                             result |-> LoadResult(doc.members[i][2])]]]
      [] doc.t = "array" -> EmptyList
      [] OTHER -> Scalar

NoDoc == [t |-> "none", members |-> <<>>]
MissingFile == [kind |-> "missing", doc |-> NoDoc]
UnreadableFile == [kind |-> "unreadable", doc |-> NoDoc]
GarbageFile == [kind |-> "garbage", doc |-> NoDoc]
BadUtf8File == [kind |-> "badutf8", doc |-> NoDoc]
JsonFile(doc) == [kind |-> "json", doc |-> doc]

\* ResponseCache._load : <<outcome, value>>
\* FileNotFoundError, JSONDecodeError and OSError are caught and give {};
\* UnicodeDecodeError (a ValueError) is not caught; any JSON value that
\* parses is returned as it is, mapping or not.
Load(f) ==
    CASE f.kind = "json" -> <<"ok", LoadDoc(f.doc)>>
      [] f.kind = "badutf8" -> <<"UnicodeDecodeError", EmptyDict>>
      [] OTHER -> <<"ok", EmptyDict>>

\* a _save that keeps the entries the file holds for URLs the map lacks
SaveMerges(f, d, io) ==
    LET old == IF Load(f)[2].kind = "dict" THEN Load(f)[2] ELSE EmptyDict
        kept == SelectSeq(old.entries, LAMBDA e : ~Contains(d, e.url))
    IN  CASE io = "ok" -> JsonFile(Dump([d EXCEPT !.entries = @ \o kept]))
          [] io = "fail_open" -> f
          [] OTHER -> GarbageFile

\* ResponseCache._save : the file after the call
Save(f, d, io) ==
    CASE io = "ok" -> JsonFile(Dump(d))
      [] io = "fail_open" -> f
      [] OTHER -> GarbageFile

\* --------------------------------------------------------------- CacheStats
\* a hit rate that is a fraction of 1, not a percentage
hit_rateAsFraction(h, m) ==
    LET total == h + m
    IN  IF total = 0
        THEN [num |-> 0, den |-> 1]
        ELSE [num |-> h, den |-> total]

\* CacheStats.hit_rate, the float as the exact fraction num/den
hit_rate(h, m) ==
    LET total == h + m
    IN  IF total = 0
        THEN [num |-> 0, den |-> 1]
        ELSE [num |-> h * 100, den |-> total]

\* ------------------------------------------------------------ ResponseCache
NoEntries == [u \in URLS |-> NoEntry]

Op(name, url) == [op |-> name, url |-> url]

\* ResponseCache.__init__ on the backing file f: <<inst, cache, ret>>
Construct(f) ==
    IF Load(f)[1] = "ok"
    THEN <<"live", Load(f)[2], ReturnedNone>>
    ELSE <<"failed", EmptyDict, Raised(Load(f)[1])>>

\* the files a cache directory may hold before the first process starts
InitFiles ==
    { MissingFile, UnreadableFile, GarbageFile, BadUtf8File,
      JsonFile([t |-> "number", members |-> <<>>]),
      JsonFile([t |-> "array", members |-> <<>>]),
      JsonFile(Dump(EmptyDict)),
      JsonFile(Dump(Store(EmptyDict, "u1", [summary |-> "s1", sentiment |-> "positive"]))) }

CacheInit ==
    /\ file \in InitFiles
    /\ inst = Construct(file)[1]
    /\ cache = Construct(file)[2]
    /\ ret = Construct(file)[3]
    /\ hits = 0
    /\ misses = 0
    /\ rate = hit_rate(0, 0)
    /\ gets = 0
    /\ lastSet = NoEntries
    /\ durable = [u \in URLS |-> "unknown"]
    /\ lastOp = Op("construct", "-")

\* a process restart: a new ResponseCache on the same backing store
Reconstruct ==
    /\ inst' = Construct(file)[1]
    /\ cache' = Construct(file)[2]
    /\ ret' = Construct(file)[3]
    /\ hits' = 0
    /\ misses' = 0
    /\ gets' = 0
    /\ lastSet' = NoEntries
    /\ lastOp' = Op("construct", "-")
    /\ UNCHANGED <<file, rate, durable>>

Restart ==
    /\ Reconstruct
    /\ UNCHANGED <<pipeVars, batchVars, storeVars, peerVars>>

\* `url in self._cache` on whatever _load returned: "yes", "no", or "raise"
\* (the operator is not defined for an int or None)
Probe(d, url) ==
    CASE d.kind = "dict" -> IF Contains(d, url) THEN "yes" ELSE "no"
      [] d.kind = "list" -> "no"
      [] OTHER -> "raise"

\* a get that never finds anything
GetAlwaysMisses(d, url, h, m) ==
    IF Probe(d, url) = "raise"
    THEN <<h, m, Raised("TypeError")>>
    ELSE <<h, m + 1, ReturnedNone>>

\* ResponseCache.get : <<hits, misses, ret>> after the call
GetEffect(d, url, h, m) ==
    CASE Probe(d, url) = "yes" -> <<h + 1, m, Returned(Lookup(d, url))>>
      [] Probe(d, url) = "no" -> <<h, m + 1, ReturnedNone>>
      [] OTHER -> <<h, m, Raised("TypeError")>>

GetCache(url) ==
    /\ inst = "live"
    /\ gets < MaxGets
    /\ hits' = GetEffect(cache, url, hits, misses)[1]
    /\ misses' = GetEffect(cache, url, hits, misses)[2]
    /\ ret' = GetEffect(cache, url, hits, misses)[3]
    /\ gets' = gets + 1
    /\ lastOp' = Op("get", url)
    /\ UNCHANGED <<inst, cache, file, rate, lastSet, durable>>

Get(url) ==
    /\ GetCache(url)
    /\ UNCHANGED <<pipeVars, batchVars, storeVars, peerVars>>

\* a set that takes the new entry back when it cannot be persisted
SetRollsBack(d, f, url, result, io) ==
    CASE d.kind # "dict" -> <<d, f, Raised("TypeError")>>
      [] io = "ok" -> <<Store(d, url, result),
                        Save(f, Store(d, url, result), io), ReturnedNone>>
      [] OTHER -> <<d, Save(f, Store(d, url, result), io), Raised("OSError")>>

\* ResponseCache.set : <<cache, file, ret>> after the call; item assignment
\* raises on a list (str index) and on a scalar, before _save is reached
SetEffect(d, f, url, result, io) ==
    IF d.kind = "dict"
    THEN <<Store(d, url, result),
           Save(f, Store(d, url, result), io),
           IF io = "ok" THEN ReturnedNone ELSE Raised("OSError")>>
    ELSE <<d, f, Raised("TypeError")>>

\* the history of url after a set(url) call
DurableAfterSet(d, io, was) ==
    CASE d.kind # "dict" -> was
      [] io = "ok" -> "set"
      [] was = "set" -> "set"
      [] OTHER -> "unknown"

Set(url, result, io) ==
    /\ inst = "live"
    /\ cache' = SetEffect(cache, file, url, result, io)[1]
    /\ file' = SetEffect(cache, file, url, result, io)[2]
    /\ ret' = SetEffect(cache, file, url, result, io)[3]
    /\ lastSet' = IF cache.kind = "dict"
                  THEN [lastSet EXCEPT ![url] = Entry(result)]
                  ELSE lastSet
    /\ durable' = [durable EXCEPT ![url] = DurableAfterSet(cache, io, @)]
    /\ lastOp' = Op("set", url)
    /\ UNCHANGED <<inst, hits, misses, rate, gets>>

    /\ UNCHANGED <<pipeVars, batchVars, storeVars, peerVars>>

\* a clear that empties the map and does not persist
ClearMemoryOnly(d, f, io) ==
    <<EmptyDict, f, IF io = "ok" THEN ReturnedNone ELSE Raised("OSError")>>

\* ResponseCache.clear : <<cache, file, ret>> after the call
ClearEffect(d, f, io) ==
    <<EmptyDict,
      Save(f, EmptyDict, io),
      IF io = "ok" THEN ReturnedNone ELSE Raised("OSError")>>

ClearCache(io) ==
    /\ inst = "live"
    /\ cache' = ClearEffect(cache, file, io)[1]
    /\ file' = ClearEffect(cache, file, io)[2]
    /\ ret' = ClearEffect(cache, file, io)[3]
    /\ lastSet' = NoEntries
    /\ durable' = [u \in URLS |-> IF io = "ok" THEN "cleared" ELSE "unknown"]
    /\ lastOp' = Op("clear", "-")
    /\ UNCHANGED <<inst, hits, misses, rate, gets>>

Clear(io) == ClearCache(io) /\ UNCHANGED <<pipeVars, batchVars, storeVars, peerVars>>

CacheNext ==
    \/ Restart
    \/ \E u \in URLS : Get(u)
    \/ \E u \in URLS, r \in Results, io \in SaveOutcomes : Set(u, r, io)
    \/ \E io \in SaveOutcomes : Clear(io)

\* ------------------------------------------------------- CacheStats alone
\* stats.hits += 1 and stats.misses += 1, as get does and as the tests do
\* by assigning the fields
RecordHit ==
    /\ hits < MaxLookups
    /\ hits' = hits + 1
    /\ lastOp' = Op("record", "-")
    /\ UNCHANGED <<inst, cache, file, misses, ret, rate, gets, lastSet, durable>>
    /\ UNCHANGED <<pipeVars, batchVars, storeVars, peerVars>>

RecordMiss ==
    /\ misses < MaxLookups
    /\ misses' = misses + 1
    /\ lastOp' = Op("record", "-")
    /\ UNCHANGED <<inst, cache, file, hits, ret, rate, gets, lastSet, durable>>
    /\ UNCHANGED <<pipeVars, batchVars, storeVars, peerVars>>

\* reading stats.hit_rate
ReadHitRate ==
    /\ rate' = hit_rate(hits, misses)
    /\ lastOp' = Op("hit_rate", "-")
    /\ UNCHANGED <<inst, cache, file, hits, misses, ret, gets, lastSet, durable>>
    /\ UNCHANGED <<pipeVars, batchVars, storeVars, peerVars>>

StatsNext == RecordHit \/ RecordMiss \/ ReadHitRate

\* --------------------------------------------------------------- CostTracker
\* the price table, in millionths of a dollar per 1000 tokens
PRICING ==
    { [provider |-> "openai", model |-> "gpt-4o-mini",
       input |-> 150, output |-> 600],
      [provider |-> "anthropic", model |-> "claude-3-5-sonnet-20241022",
       input |-> 3000, output |-> 15000],
      [provider |-> "anthropic", model |-> "claude-sonnet-4-20250514",
       input |-> 3000, output |-> 15000] }

Priced(provider, model) ==
    \E p \in PRICING : p.provider = provider /\ p.model = model

Price(provider, model) ==
    CHOOSE p \in PRICING : p.provider = provider /\ p.model = model

\* input/1000 * input_rate + output/1000 * output_rate, in billionths of a
\* dollar so that the division by 1000 is exact
Cost(provider, model, input_tokens, output_tokens) ==
    input_tokens * Price(provider, model).input
        + output_tokens * Price(provider, model).output

CostRecord(provider, model, input_tokens, output_tokens) ==
    [provider |-> provider, model |-> model,
     input_tokens |-> input_tokens, output_tokens |-> output_tokens,
     cost |-> Cost(provider, model, input_tokens, output_tokens)]

\* a tracker that appends the record and forgets the running total
TrackForgetsTotal(reqs, total, provider, model, input_tokens, output_tokens) ==
    IF Priced(provider, model)
    THEN <<Append(reqs, CostRecord(provider, model, input_tokens, output_tokens)),
           total,
           Returned(Cost(provider, model, input_tokens, output_tokens))>>
    ELSE <<reqs, total, Raised("ValueError")>>

\* a tracker that books an unknown provider/model combination at no cost
TrackUnknownIsFree(reqs, total, provider, model, input_tokens, output_tokens) ==
    IF Priced(provider, model)
    THEN <<Append(reqs, CostRecord(provider, model, input_tokens, output_tokens)),
           total + Cost(provider, model, input_tokens, output_tokens),
           Returned(Cost(provider, model, input_tokens, output_tokens))>>
    ELSE <<Append(reqs, [provider |-> provider, model |-> model,
                         input_tokens |-> input_tokens,
                         output_tokens |-> output_tokens, cost |-> 0]),
           total, Returned(0)>>

\* CostTracker.track_request : <<requests, total_cost, ret>> after the call
TrackEffect(reqs, total, provider, model, input_tokens, output_tokens) ==
    IF Priced(provider, model)
    THEN <<Append(reqs, CostRecord(provider, model, input_tokens, output_tokens)),
           total + Cost(provider, model, input_tokens, output_tokens),
           Returned(Cost(provider, model, input_tokens, output_tokens))>>
    ELSE <<reqs, total, Raised("ValueError")>>

RECURSIVE SumOf(_, _)
\* the sum of one field over the ledger; field is "cost", "input_tokens"
\* or "output_tokens"
SumOf(reqs, field) ==
    IF reqs = <<>>
    THEN 0
    ELSE reqs[1][field] + SumOf(Tail(reqs), field)

\* CostTracker.get_summary
get_summary(reqs, total) ==
    [total_requests |-> Len(reqs),
     total_cost |-> total,
     total_input_tokens |-> SumOf(reqs, "input_tokens"),
     total_output_tokens |-> SumOf(reqs, "output_tokens")]

\* the provider/model pairs and token counts callers pass
TrackedModels ==
    { <<"openai", "gpt-4o-mini">>,
      <<"anthropic", "claude-3-5-sonnet-20241022">>,
      <<"openai", "no-such-model">> }

TokenCounts == {0, 100}

Track(provider, model, input_tokens, output_tokens) ==
    /\ Len(requests) < MaxRequests
    /\ requests' = TrackEffect(requests, total_cost, provider, model,
                               input_tokens, output_tokens)[1]
    /\ total_cost' = TrackEffect(requests, total_cost, provider, model,
                                 input_tokens, output_tokens)[2]
    /\ ret' = TrackEffect(requests, total_cost, provider, model,
                          input_tokens, output_tokens)[3]
    /\ lastOp' = Op("track_request", provider)
    /\ UNCHANGED <<inst, cache, file, hits, misses, rate, gets, lastSet,
                   durable, openai_calls, anthropic_calls, summary, db, done,
                   before>>
    /\ UNCHANGED <<batchVars, storeVars, peerVars>>

GetSummary ==
    /\ summary' = get_summary(requests, total_cost)
    /\ lastOp' = Op("get_summary", "-")
    /\ UNCHANGED <<inst, cache, file, hits, misses, ret, rate, gets, lastSet,
                   durable, openai_calls, anthropic_calls, requests,
                   total_cost, db, done, before>>
    /\ UNCHANGED <<batchVars, storeVars, peerVars>>

\* a budget check that also fails when the total has just reached the limit
BudgetFailsAtLimit(total, limit) ==
    IF total >= limit THEN Raised("BudgetExceeded") ELSE ReturnedNone

\* CostTracker.check_budget : what the call returns or raises
check_budget(total, limit) ==
    IF total > limit THEN Raised("BudgetExceeded") ELSE ReturnedNone

\* the limits callers pass, in the unit of total_cost: nothing, the cost of
\* one gpt-4o-mini request of 100 and 100 tokens, and a larger budget
BudgetLimits == {0, 75000, 300000}

CheckBudget(limit) ==
    /\ ret' = check_budget(total_cost, limit)
    /\ lastOp' = [op |-> "check_budget", url |-> "-", limit |-> limit]
    /\ UNCHANGED <<inst, cache, file, hits, misses, rate, gets, lastSet,
                   durable, openai_calls, anthropic_calls, requests,
                   total_cost, summary, db, done, before>>
    /\ UNCHANGED <<batchVars, storeVars, peerVars>>

LedgerNext ==
    \/ \E pm \in TrackedModels, i \in TokenCounts, o \in TokenCounts :
          Track(pm[1], pm[2], i, o)
    \/ GetSummary
    \/ \E limit \in BudgetLimits : CheckBudget(limit)

\* -------------------------------------------------------- NewsSummarizer
\* what an LLM call may give back: a completion, or "fail" when it raises
Summaries == {"s1", "s2"}
Sentiments == {"positive", "negative"}
LLMFailure == "fail"

\* token counts charged for one call of the pipeline
PromptTokens == 100
CompletionTokens == 50

OPENAI_MODEL == "gpt-4o-mini"
ANTHROPIC_MODEL == "claude-sonnet-4-20250514"

\* what a summarize_article(url) call finds
Snapshot(url) ==
    [openai_calls |-> openai_calls, anthropic_calls |-> anthropic_calls,
     requests |-> requests, total_cost |-> total_cost, misses |-> misses,
     done |-> done[url]]

\* a pipeline that caches and stores what it has when the sentiment call
\* fails
summarize_articleKeepsPartial(url, s, t, io) ==
    /\ inst = "live"
    /\ gets < MaxSummarize
    /\ Probe(cache, url) = "no"
    /\ s # LLMFailure
    /\ t = LLMFailure
    /\ cache' = Store(cache, url, [summary |-> s, sentiment |-> t])
    /\ db' = [db EXCEPT ![url] = Entry([summary |-> s, sentiment |-> t])]
    /\ ret' = Raised("LLMError")
    /\ misses' = misses + 1
    /\ gets' = gets + 1
    /\ openai_calls' = openai_calls + 1
    /\ anthropic_calls' = anthropic_calls + 1
    /\ lastOp' = Op("summarize_article", url)
    /\ before' = Snapshot(url)
    /\ UNCHANGED <<inst, file, hits, rate, lastSet, durable, requests,
                   total_cost, summary, done>>
    /\ UNCHANGED <<storeVars, peerVars>>

\* NewsSummarizer.summarize_article(article) for the article at url; s and
\* t are what the two LLM calls give back, io what the cache write does
summarize_article(url, s, t, io) ==
    LET looked == GetEffect(cache, url, hits, misses)
        asked1 == TrackEffect(requests, total_cost, "openai", OPENAI_MODEL,
                              PromptTokens, CompletionTokens)
        asked2 == TrackEffect(asked1[1], asked1[2], "anthropic",
                              ANTHROPIC_MODEL, PromptTokens, CompletionTokens)
        result == [summary |-> s, sentiment |-> t]
        stored == SetEffect(cache, file, url, result, io)
    IN  /\ inst = "live"
        /\ gets < MaxSummarize
        /\ hits' = looked[1]
        /\ misses' = looked[2]
        /\ gets' = gets + 1
        /\ lastOp' = Op("summarize_article", url)
        /\ before' = Snapshot(url)
        /\ UNCHANGED <<inst, rate, summary>>
        /\ UNCHANGED <<storeVars, peerVars>>
        /\ CASE looked[3].kind = "raise" ->
                    \* the lookup raised: nothing else happens
                    /\ ret' = looked[3]
                    /\ UNCHANGED <<cache, file, lastSet, durable, openai_calls,
                                   anthropic_calls, requests, total_cost, db,
                                   done>>
             [] looked[3].kind = "value" ->
                    \* hit: the cached result, no LLM call, no cost
                    /\ ret' = looked[3]
                    /\ done' = [done EXCEPT ![url] = Entry(looked[3].val)]
                    /\ UNCHANGED <<cache, file, lastSet, durable, openai_calls,
                                   anthropic_calls, requests, total_cost, db>>
             [] OTHER ->
                    \* miss: summarize, classify, then commit
                    /\ openai_calls' = openai_calls + 1
                    /\ IF s = LLMFailure
                       THEN /\ ret' = Raised("LLMError")
                            /\ UNCHANGED <<cache, file, lastSet, durable,
                                           anthropic_calls, requests,
                                           total_cost, db, done>>
                       ELSE /\ anthropic_calls' = anthropic_calls + 1
                            /\ IF t = LLMFailure
                               THEN /\ ret' = Raised("LLMError")
                                    /\ requests' = asked1[1]
                                    /\ total_cost' = asked1[2]
                                    /\ UNCHANGED <<cache, file, lastSet,
                                                   durable, db, done>>
                               ELSE /\ requests' = asked2[1]
                                    /\ total_cost' = asked2[2]
                                    /\ cache' = stored[1]
                                    /\ file' = stored[2]
                                    /\ lastSet' =
                                         IF cache.kind = "dict"
                                         THEN [lastSet EXCEPT ![url] = Entry(result)]
                                         ELSE lastSet
                                    /\ durable' =
                                         [durable EXCEPT
                                            ![url] = DurableAfterSet(cache, io, @)]
                                    /\ IF stored[3] = ReturnedNone
                                       THEN /\ ret' = Returned(result)
                                            /\ db' = [db EXCEPT ![url] = Entry(result)]
                                            /\ done' = [done EXCEPT ![url] = Entry(result)]
                                       ELSE /\ ret' = stored[3]
                                            /\ UNCHANGED <<db, done>>

\* a single article handed to the pipeline by its owner
Summarize(url, s, t, io) ==
    /\ summarize_article(url, s, t, io)
    /\ UNCHANGED batchVars

\* the owner of the pipeline clears its cache
PipelineClear(io) ==
    /\ ClearCache(io)
    /\ done' = NoEntries
    /\ UNCHANGED <<openai_calls, anthropic_calls, requests, total_cost,
                   summary, db, before>>
    /\ UNCHANGED <<batchVars, storeVars, peerVars>>

PipelineNext ==
    \/ \E u \in URLS, s \in Summaries \cup {LLMFailure},
          t \in Sentiments \cup {LLMFailure}, io \in SaveOutcomes :
            Summarize(u, s, t, io)
    \/ \E io \in SaveOutcomes : PipelineClear(io)

\* ------------------------------------------------------- process_articles
\* the article lists the news source hands to fetch_articles: one or two
\* articles, the same URL twice included
Batches ==
    {<<u>> : u \in URLS} \cup {<<u, v>> : u \in URLS, v \in URLS}

\* a loop that gives up at the first article that fails
StopAtFailure(r, p) ==
    IF r.kind = "value" THEN p + 1 ELSE 0

\* where process_articles goes after an article whose attempt ended in r:
\* on to the next one after a result or an LLM failure; any other error
\* (a cache write or lookup that raised) leaves the loop, 0
Advance(r, p) ==
    IF r.kind = "value" \/ r = Raised("LLMError") THEN p + 1 ELSE 0

\* the results list after an article whose attempt ended in r
Collected(res, url, r) ==
    IF r.kind = "value"
    THEN Append(res, [url |-> url, result |-> r.val])
    ELSE res

\* fetch_articles has its articles and calls process_articles on them
ProcessStart(articles) ==
    /\ inst = "live"
    /\ pos = 0
    /\ gets < MaxSummarize
    /\ batch' = articles
    /\ pos' = 1
    /\ results' = <<>>
    /\ outcomes' = <<>>
    /\ count' = 0
    /\ lastOp' = Op("fetch_articles", "-")
    /\ UNCHANGED <<inst, cache, file, hits, misses, ret, rate, gets, lastSet,
                   durable>>
    /\ UNCHANGED <<pipeVars, storeVars, peerVars>>

\* one round of the loop: the article at pos goes through summarize_article
ProcessStep(s, t, io) ==
    /\ pos \in 1..Len(batch)
    /\ summarize_article(batch[pos], s, t, io)
    /\ outcomes' = Append(outcomes, [url |-> batch[pos], r |-> ret'])
    /\ results' = Collected(results, batch[pos], ret')
    /\ pos' = Advance(ret', pos)
    /\ UNCHANGED <<batch, count>>

\* the loop is through: process_articles returns its list and
\* fetch_articles counts it
ProcessReturn ==
    /\ pos = Len(batch) + 1
    /\ ret' = Returned(results)
    /\ count' = Len(results)
    /\ pos' = 0
    /\ lastOp' = Op("process_articles", "-")
    /\ UNCHANGED <<inst, cache, file, hits, misses, rate, gets, lastSet,
                   durable>>
    /\ UNCHANGED <<batch, results, outcomes>>
    /\ UNCHANGED <<pipeVars, storeVars, peerVars>>

BatchNext ==
    \/ \E articles \in Batches : ProcessStart(articles)
    \/ \E s \in Summaries \cup {LLMFailure},
          t \in Sentiments \cup {LLMFailure}, io \in SaveOutcomes :
            ProcessStep(s, t, io)
    \/ ProcessReturn

\* ---------------------------------------------------------- ArticleDatabase
\* text is a sequence of characters; what the saved articles say
Contents ==
    { [title |-> <<"A", "b">>, summary |-> <<"b">>, sentiment |-> "positive"],
      [title |-> <<"b", "_">>, summary |-> <<"a">>, sentiment |-> "negative"] }

\* the result dicts handed to save_article / save_articles; bindable is
\* FALSE for a dict with a value sqlite3 cannot bind (a list, a dict)
Articles ==
    { [url |-> u, title |-> c.title, summary |-> c.summary,
       sentiment |-> c.sentiment, bindable |-> TRUE] : u \in URLS, c \in Contents }
    \cup
    { [url |-> "u2", title |-> <<>>, summary |-> <<"a">>,
       sentiment |-> "negative", bindable |-> FALSE] }

ArticleBatches ==
    {<<>>} \cup {<<a>> : a \in Articles}
           \cup {<<a, b>> : a \in Articles, b \in Articles}

ContentOf(a) ==
    [title |-> a.title, summary |-> a.summary, sentiment |-> a.sentiment]

\* a row of table articles; call is history, the number of the save call
\* that wrote it
Row(id, a, now, call) ==
    [id |-> id, url |-> a.url, title |-> a.title, summary |-> a.summary,
     sentiment |-> a.sentiment, processed_at |-> now, call |-> call]

\* the largest rowid in the table, 0 when it is empty
MaxRowid(rws) ==
    IF rws = {} THEN 0 ELSE CHOOSE i \in {r.id : r \in rws} :
                                \A r \in rws : r.id <= i

\* an id column without AUTOINCREMENT: one more than the largest rowid of
\* the rows that stay
ReuseRowid(sq, rws) == MaxRowid(rws) + 1

\* id INTEGER PRIMARY KEY AUTOINCREMENT: one more than the largest id the
\* table has ever handed out
NextId(sq, rws) == sq + 1

\* a plain INSERT into a table without the UNIQUE constraint
InsertOnly(rws, id, a, now, call) ==
    rws \cup {Row(id, a, now, call)}

\* INSERT OR REPLACE with url UNIQUE: the row of the same url goes, the new
\* row comes
Upsert(rws, id, a, now, call) ==
    {r \in rws : r.url # a.url} \cup {Row(id, a, now, call)}

\* the table with its history, as one value
Table ==
    [rows |-> rows, seq |-> seq, saved |-> saved, issued |-> issued,
     retired |-> retired, raised |-> FALSE]

\* one INSERT OR REPLACE statement for article a
Written(tb, a, now, call) ==
    LET old == {r \in tb.rows : r.url = a.url}
        id == NextId(tb.seq, tb.rows \ old)
    IN  [rows |-> Upsert(tb.rows, id, a, now, call),
         seq |-> IF id > tb.seq THEN id ELSE tb.seq,
         saved |-> [tb.saved EXCEPT ![a.url] = Entry(ContentOf(a))],
         issued |-> Append(tb.issued, id),
         retired |-> tb.retired \cup {r.id : r \in old},
         raised |-> FALSE]

RECURSIVE executemany(_, _, _, _)
\* cursor.executemany: the statement runs for one parameter tuple after the
\* other and raises at the first tuple that cannot be bound; the rows
\* written before it stay in the open transaction
executemany(tb, recs, now, call) ==
    IF recs = <<>>
    THEN tb
    ELSE IF ~Head(recs).bindable
         THEN [tb EXCEPT !.raised = TRUE]
         ELSE executemany(Written(tb, Head(recs), now, call),
                          Tail(recs), now, call)

\* the statements of a save call have run and left the table as tb:
\* commit() is reached when none of them raised
Saved(tb) ==
    /\ rows' = tb.rows
    /\ seq' = tb.seq
    /\ saved' = tb.saved
    /\ issued' = tb.issued
    /\ retired' = tb.retired
    /\ disk' = IF tb.raised THEN disk ELSE tb.rows
    /\ ret' = IF tb.raised THEN Raised("sqlite3.Error") ELSE ReturnedNone
    /\ calls' = calls + 1
    /\ UNCHANGED <<inst, cache, file, hits, misses, rate, gets, lastSet,
                   durable>>
    /\ UNCHANGED <<pipeVars, batchVars, peerVars>>

\* datetime.now after the clock has moved on by tick
Now(tick) == clock + tick

\* ArticleDatabase.save_article(result)
SaveArticle(a, tick) ==
    /\ calls < MaxSaves
    /\ clock' = Now(tick)
    /\ Saved(executemany(Table, <<a>>, Now(tick), calls + 1))
    /\ lastOp' = Op("save_article", a.url)
    /\ UNCHANGED failed

\* ArticleDatabase.save_articles(results): one timestamp for the batch
SaveArticles(recs, tick) ==
    /\ calls < MaxSaves
    /\ clock' = Now(tick)
    /\ Saved(executemany(Table, recs, Now(tick), calls + 1))
    /\ lastOp' = Op("save_articles", "-")
    /\ failed' = IF executemany(Table, recs, Now(tick), calls + 1).raised
                 THEN failed \cup {calls + 1}
                 ELSE failed

\* a query leaves the table alone
Queried ==
    /\ UNCHANGED <<inst, cache, file, hits, misses, rate, gets, lastSet,
                   durable>>
    /\ UNCHANGED <<pipeVars, batchVars, storeVars, peerVars>>

\* fetchone of SELECT * ... WHERE <column> = ? on a unique column
FetchOne(found) ==
    IF found = {} THEN ReturnedNone ELSE Returned(CHOOSE r \in found : TRUE)

\* ArticleDatabase.get_article(url)
GetArticle(url) ==
    /\ ret' = FetchOne({r \in rows : r.url = url})
    /\ lastOp' = Op("get_article", url)
    /\ Queried

\* ArticleDatabase.count()
Count ==
    /\ ret' = Returned(Cardinality(rows))
    /\ lastOp' = Op("count", "-")
    /\ Queried

\* article_detail(article_id): SELECT * FROM articles WHERE id = ?
ArticleDetail(id) ==
    /\ ret' = FetchOne({r \in rows : r.id = id})
    /\ lastOp' = [op |-> "article_detail", url |-> "-", id |-> id]
    /\ Queried

\* the lists that hold every row of rs exactly once
Orderings(rs) ==
    {q \in [1..Cardinality(rs) -> rs] :
        \A i, j \in 1..Cardinality(rs) : q[i] = q[j] => i = j}

\* oldest first
Ascending(q) ==
    \A i, j \in 1..Len(q) : i < j => q[i].processed_at <= q[j].processed_at

\* ORDER BY processed_at DESC; rows of equal processed_at come in an order
\* SQL does not define
Descending(q) ==
    \A i, j \in 1..Len(q) : i < j => q[i].processed_at >= q[j].processed_at

\* ArticleDatabase.get_all_articles()
GetAllArticles ==
    /\ \E q \in Orderings(rows) : Descending(q) /\ ret' = Returned(q)
    /\ lastOp' = Op("get_all_articles", "-")
    /\ Queried

\* LIKE compares ASCII letters without regard to case
Fold(c) ==
    CASE c = "A" -> "a"
      [] c = "B" -> "b"
      [] OTHER -> c

RECURSIVE Like(_, _)
\* text LIKE pattern: % stands for any run of characters, _ for any one
\* character, every other character for itself
Like(pattern, text) ==
    CASE pattern = <<>> -> text = <<>>
      [] Head(pattern) = "%" ->
            \E k \in 0..Len(text) :
                Like(Tail(pattern), SubSeq(text, k + 1, Len(text)))
      [] Head(pattern) = "_" ->
            text # <<>> /\ Like(Tail(pattern), Tail(text))
      [] OTHER ->
            /\ text # <<>>
            /\ Fold(Head(pattern)) = Fold(Head(text))
            /\ Like(Tail(pattern), Tail(text))

\* pattern = f"%{keyword}%"
Pattern(keyword) == <<"%">> \o keyword \o <<"%">>

\* the keywords searched for
Keywords ==
    { <<"a", "b">>, <<"B", "_">>, <<"_">>, <<"%">>, <<"b", "b">> }

\* ArticleDatabase.search_articles(keyword)
SearchArticles(keyword) ==
    /\ \E q \in Orderings({r \in rows :
                              \/ Like(Pattern(keyword), r.title)
                              \/ Like(Pattern(keyword), r.summary)}) :
          Descending(q) /\ ret' = Returned(q)
    /\ lastOp' = [op |-> "search_articles", url |-> "-", keyword |-> keyword]
    /\ Queried

\* the clock does not run backwards; between two readings it has moved on
\* or it has not
Ticks == {0, 1}

\* the identifiers looked up: every id a table of this size can have handed
\* out, and one more
Ids == 1..(2 * MaxSaves + 1)

StoreNext ==
    \/ \E a \in Articles, tick \in Ticks : SaveArticle(a, tick)
    \/ \E b \in ArticleBatches, tick \in Ticks : SaveArticles(b, tick)
    \/ \E u \in URLS : GetArticle(u)
    \/ Count
    \/ \E id \in Ids : ArticleDetail(id)
    \/ GetAllArticles
    \/ \E k \in Keywords : SearchArticles(k)

\* -------------------------------------------------------- extract_sentiment
\* free text is a sequence of tokens: words, and the characters ":", " "
\* and "*" one token each; a word is a token of its own, so that `keyword
\* in lower` is "some token of lower is keyword"
Vocabulary == <<"positive", "negative", "neutral", "mixed">>

VocabularyWords == {Vocabulary[i] : i \in 1..Len(Vocabulary)}

\* the pieces the sentiment texts are put together from
Chunks ==
    { <<"Overall", " ", "Sentiment", ":", " ", "Negative">>,
      <<"sentiment", ":", " ", "*", "*", "neutral", "*", "*">>,
      <<"Sentiment", ":", "*", "*", " ", "negative">>,
      <<"sentiment", " ", "mixed">>,
      <<"Positive">>,
      <<"mixed">>,
      <<"outlook">>,
      <<" ">> }

RECURSIVE Concats(_)
\* the texts of at most n chunks
Concats(n) ==
    IF n = 0
    THEN {<<>>}
    ELSE Concats(n - 1)
            \cup {t \o c : t \in Concats(n - 1), c \in Chunks}

\* what extract_sentiment is called with: None, or a string
NoText == [given |-> FALSE, tokens |-> <<>>]

SentimentTexts ==
    {NoText} \cup {[given |-> TRUE, tokens |-> t] : t \in Concats(MaxChunks)}

\* str.lower, token by token
LowerToken(tok) ==
    CASE tok = "Overall" -> "overall"
      [] tok = "Sentiment" -> "sentiment"
      [] tok = "Positive" -> "positive"
      [] tok = "Negative" -> "negative"
      [] OTHER -> tok

Lower(tokens) == [i \in 1..Len(tokens) |-> LowerToken(tokens[i])]

\* the places <<p, q, k>> where the pattern
\*   (?:overall\s+)?sentiment[:\s]+\*{0,2}(positive|negative|neutral|mixed)
\* matches: "sentiment" at p, colons and whitespace up to q, k asterisks,
\* then the word; the optional "overall" in front changes no group
Matches(lower) ==
    {m \in {i \in 1..Len(lower) : lower[i] = "sentiment"}
              \X (1..Len(lower)) \X (0..2) :
        /\ m[2] > m[1]
        /\ \A i \in (m[1] + 1)..m[2] : lower[i] \in {":", " "}
        /\ \A i \in (m[2] + 1)..(m[2] + m[3]) :
              i <= Len(lower) /\ lower[i] = "*"
        /\ m[2] + m[3] + 1 <= Len(lower)
        /\ lower[m[2] + m[3] + 1] \in VocabularyWords}

\* re.search: the leftmost match, and its group 1
SearchGroup(lower) ==
    LET first == CHOOSE m \in Matches(lower) :
                    \A n \in Matches(lower) : m[1] <= n[1]
    IN  lower[first[2] + first[3] + 1]

\* the keyword fallback: the first word of the vocabulary that occurs
FirstKeyword(lower) ==
    LET found == {i \in 1..Len(Vocabulary) :
                    \E j \in 1..Len(lower) : lower[j] = Vocabulary[i]}
    IN  IF found = {}
        THEN "unknown"
        ELSE Vocabulary[CHOOSE i \in found : \A j \in found : i <= j]

\* extract_sentiment(text)
extract_sentiment(text) ==
    IF ~text.given \/ text.tokens = <<>>
    THEN "unknown"
    ELSE IF Matches(Lower(text.tokens)) # {}
         THEN SearchGroup(Lower(text.tokens))
         ELSE FirstKeyword(Lower(text.tokens))

\* the sentiment filter is applied to a text
ExtractSentiment(text) ==
    /\ ret' = Returned(extract_sentiment(text))
    /\ lastOp' = [op |-> "extract_sentiment", url |-> "-", text |-> text]
    /\ UNCHANGED <<inst, cache, file, hits, misses, rate, gets, lastSet,
                   durable>>
    /\ UNCHANGED <<pipeVars, batchVars, storeVars, peerVars>>

SentimentNext == \E text \in SentimentTexts : ExtractSentiment(text)

\* ------------------------------------------- two instances on one cache_dir
\* The per-URL set histories lastSet and durable belong to the runs of one
\* instance and are not kept here; seen and writer are the histories of
\* the two instances.
Instances == {1, 2}

\* no second instance has been constructed
NoPeer == [inst |-> "none", cache |-> EmptyDict, hits |-> 0, misses |-> 0,
           gets |-> 0]

\* ResponseCache.__init__ of the second instance on the backing file f
PeerConstruct(f) ==
    [inst |-> Construct(f)[1], cache |-> Construct(f)[2],
     hits |-> 0, misses |-> 0, gets |-> 0]

\* self._cache of instance who
MapOf(who) == IF who = 1 THEN cache ELSE peer.cache

\* per URL, the entry a map holds for it (none when the map is no dict)
EntriesOf(d) ==
    [u \in URLS |-> IF d.kind = "dict" /\ Contains(d, u)
                    THEN Entry(Lookup(d, u))
                    ELSE NoEntry]

NoWriter == [who |-> 0, clean |-> TRUE]

\* the history of the file's writer after a set or clear on instance who:
\* reached says whether the call got as far as _save, io how _save ended.
\* A _save that raises before the file is opened leaves the file to the
\* last writer, whose map it still equals unless that writer is who itself.
WriterAfter(who, reached, io) ==
    CASE ~reached -> writer
      [] io = "ok" -> [who |-> who, clean |-> TRUE]
      [] io = "fail_open" /\ writer.who # who -> writer
      [] OTHER -> [writer EXCEPT !.clean = FALSE]

\* ResponseCache(cache_dir): instance who is constructed, or constructed
\* anew, on the backing file as it is now
Open(who) ==
    /\ IF who = 1
       THEN Reconstruct /\ UNCHANGED peer
       ELSE /\ peer' = PeerConstruct(file)
            /\ ret' = Construct(file)[3]
            /\ lastOp' = Op("construct", "-")
            /\ UNCHANGED <<inst, cache, file, hits, misses, rate, gets,
                           lastSet, durable>>
    /\ actor' = who
    /\ seen' = [seen EXCEPT ![who] = EntriesOf(Construct(file)[2])]
    /\ UNCHANGED <<writer, writes>>
    /\ UNCHANGED <<pipeVars, batchVars, storeVars>>

\* get(url) on instance who
SharedGet(who, url) ==
    /\ gets + peer.gets < MaxGets
    /\ IF who = 1
       THEN GetCache(url) /\ UNCHANGED peer
       ELSE /\ peer.inst = "live"
            /\ peer.gets < MaxGets
            /\ peer' = [peer EXCEPT
                   !.hits = GetEffect(peer.cache, url, peer.hits, peer.misses)[1],
                   !.misses = GetEffect(peer.cache, url, peer.hits, peer.misses)[2],
                   !.gets = @ + 1]
            /\ ret' = GetEffect(peer.cache, url, peer.hits, peer.misses)[3]
            /\ lastOp' = Op("get", url)
            /\ UNCHANGED <<inst, cache, file, hits, misses, rate, gets,
                           lastSet, durable>>
    /\ actor' = who
    /\ UNCHANGED <<seen, writer, writes>>
    /\ UNCHANGED <<pipeVars, batchVars, storeVars>>

\* set(url, result) on instance who
SharedSet(who, url, result, io) ==
    /\ writes < MaxWrites
    /\ writes' = writes + 1
    /\ IF who = 1
       THEN /\ inst = "live"
            /\ cache' = SetEffect(cache, file, url, result, io)[1]
            /\ file' = SetEffect(cache, file, url, result, io)[2]
            /\ ret' = SetEffect(cache, file, url, result, io)[3]
            /\ lastOp' = Op("set", url)
            /\ UNCHANGED <<inst, hits, misses, rate, gets, lastSet, durable,
                           peer>>
       ELSE /\ peer.inst = "live"
            /\ peer' = [peer EXCEPT
                   !.cache = SetEffect(peer.cache, file, url, result, io)[1]]
            /\ file' = SetEffect(peer.cache, file, url, result, io)[2]
            /\ ret' = SetEffect(peer.cache, file, url, result, io)[3]
            /\ lastOp' = Op("set", url)
            /\ UNCHANGED <<inst, cache, hits, misses, rate, gets, lastSet,
                           durable>>
    /\ actor' = who
    /\ seen' = IF MapOf(who).kind = "dict"
               THEN [seen EXCEPT ![who][url] = Entry(result)]
               ELSE seen
    /\ writer' = WriterAfter(who, MapOf(who).kind = "dict", io)
    /\ UNCHANGED <<pipeVars, batchVars, storeVars>>

\* clear() on instance who
SharedClear(who, io) ==
    /\ writes < MaxWrites
    /\ writes' = writes + 1
    /\ IF who = 1
       THEN /\ inst = "live"
            /\ cache' = ClearEffect(cache, file, io)[1]
            /\ file' = ClearEffect(cache, file, io)[2]
            /\ ret' = ClearEffect(cache, file, io)[3]
            /\ lastOp' = Op("clear", "-")
            /\ UNCHANGED <<inst, hits, misses, rate, gets, lastSet, durable,
                           peer>>
       ELSE /\ peer.inst = "live"
            /\ peer' = [peer EXCEPT !.cache = ClearEffect(peer.cache, file, io)[1]]
            /\ file' = ClearEffect(peer.cache, file, io)[2]
            /\ ret' = ClearEffect(peer.cache, file, io)[3]
            /\ lastOp' = Op("clear", "-")
            /\ UNCHANGED <<inst, cache, hits, misses, rate, gets, lastSet,
                           durable>>
    /\ actor' = who
    /\ seen' = [seen EXCEPT ![who] = NoEntries]
    /\ writer' = WriterAfter(who, TRUE, io)
    /\ UNCHANGED <<pipeVars, batchVars, storeVars>>

SharedNext ==
    \/ \E who \in Instances : Open(who)
    \/ \E who \in Instances, u \in URLS : SharedGet(who, u)
    \/ \E who \in Instances, u \in URLS, r \in Results, io \in SaveOutcomes :
           SharedSet(who, u, r, io)
    \/ \E who \in Instances, io \in SaveOutcomes : SharedClear(who, io)


\* ------------------------------------------------------------ specifications
vars == <<cacheVars, pipeVars, batchVars, storeVars, peerVars>>

PipeInit ==
    /\ openai_calls = 0
    /\ anthropic_calls = 0
    /\ requests = <<>>
    /\ total_cost = 0
    /\ summary = get_summary(<<>>, 0)
    /\ db = NoEntries
    /\ done = NoEntries
    /\ before = [openai_calls |-> 0, anthropic_calls |-> 0, requests |-> <<>>,
                 total_cost |-> 0, misses |-> 0, done |-> NoEntry]

BatchInit ==
    /\ batch = <<>>
    /\ pos = 0
    /\ results = <<>>
    /\ outcomes = <<>>
    /\ count = 0

\* an empty table on a new connection
StoreInit ==
    /\ rows = {}
    /\ disk = {}
    /\ seq = 0
    /\ clock = 0
    /\ calls = 0
    /\ saved = NoEntries
    /\ issued = <<>>
    /\ retired = {}
    /\ failed = {}

\* one instance on the backing file, no second one yet
PeerInit ==
    /\ peer = NoPeer
    /\ actor = 1
    /\ seen = [who \in Instances |->
                IF who = 1 THEN EntriesOf(cache) ELSE NoEntries]
    /\ writer = NoWriter
    /\ writes = 0

Init == CacheInit /\ PipeInit /\ BatchInit /\ StoreInit /\ PeerInit

\* the cache alone, driven by its four operations and by process restarts
Next == CacheNext

Spec == Init /\ [][Next]_vars

\* CacheStats alone: the counters move one step at a time and the rate is
\* read at any point
StatsInit ==
    /\ Init
    /\ file = MissingFile

SpecStats == StatsInit /\ [][StatsNext]_vars

\* the cost ledger alone
SpecLedger == StatsInit /\ [][LedgerNext]_vars

\* one process running the pipeline
SpecPipeline == Init /\ [][PipelineNext]_vars

\* the article store on one connection
SpecStore == StatsInit /\ [][StoreNext]_vars

\* the sentiment filter applied to one text after the other
SpecSentiment == StatsInit /\ [][SentimentNext]_vars

\* two processes, each with its own ResponseCache on the same cache_dir
SpecShared == StatsInit /\ [][SharedNext]_vars

\* one process running batches through process_articles
SpecBatch == Init /\ [][BatchNext]_vars

\* ------------------------------------------------------------------ claims
\* what get(url) would return on this instance, and on a freshly
\* constructed instance on the same backing store
MyView(url) == GetEffect(cache, url, 0, 0)[3]
FreshView(url) == GetEffect(Construct(file)[2], url, 0, 0)[3]

NormalReturn(name) == lastOp.op = name /\ ret = ReturnedNone

\* C2: a get(url) that follows a set(url, result) on the same instance,
\* whatever gets and sets of other URLs came in between, returns the value
\* of the most recent set(url) and adds exactly 1 to hits.
C2_SetThenGet ==
    [][\A u \in URLS :
         (Get(u) /\ lastSet[u].set)
            => /\ ret' = Returned(lastSet[u].val)
               /\ hits' = hits + 1
               /\ misses' = misses]_vars

\* a get of u1 that returned the second value set for it, after a set of u2
C2_Witness ==
    /\ lastOp = Op("get", "u1")
    /\ lastSet["u1"].set
    /\ lastSet["u2"].set
    /\ ret = Returned([summary |-> "s2", sentiment |-> "negative"])
    /\ Len(cache.entries) = 2
    /\ cache.entries[1].url = "u1"
    /\ hits = 2

\* C3: after every set or clear that returns normally the backing file
\* holds exactly the in-memory mapping: a freshly constructed instance has
\* the same map and answers every get as this instance does.
C3_FileMatchesMemory ==
    (NormalReturn("set") \/ NormalReturn("clear"))
        => /\ Construct(file)[1] = "live"
           /\ Construct(file)[2] = cache
           /\ \A u \in URLS : FreshView(u) = MyView(u)

\* a set that returned normally with two entries in the map
C3_Witness ==
    /\ NormalReturn("set")
    /\ cache.kind = "dict"
    /\ Len(cache.entries) = 2
    /\ FreshView("u2").kind = "value"

\* the backing file holds a serialized URL-to-result mapping
IsMappingFile(f) == f.kind = "json" /\ f.doc.t = "object"

\* C4: whatever the backing file holds, construction returns normally;
\* when the file is missing, unreadable or does not parse as a mapping the
\* cache is empty, every get returns absent and set works as on an empty
\* cache.
C4_ConstructNeverFails ==
    lastOp.op = "construct"
        => /\ inst = "live"
           /\ ~IsMappingFile(file)
                => /\ cache = EmptyDict
                   /\ \A u \in URLS :
                        GetEffect(cache, u, hits, misses)
                            = <<hits, misses + 1, ReturnedNone>>
                   /\ \A u \in URLS, r \in Results :
                        SetEffect(cache, file, u, r, "ok")
                            = SetEffect(EmptyDict, file, u, r, "ok")

\* C5: a get of a URL that is not in the map returns absent without
\* raising, adds exactly 1 to misses and leaves hits unchanged.
C5_GetOfUnsetMisses ==
    [][\A u \in URLS :
         (Get(u) /\ ~(cache.kind = "dict" /\ Contains(cache, u)))
            => /\ ret' = ReturnedNone
               /\ misses' = misses + 1
               /\ hits' = hits]_vars

\* C6: after clear() returns the map and the backing file are empty, and
\* every URL stays absent (a miss) on this and on any later instance until
\* set is called for it again.
C6_ClearEmpties ==
    /\ NormalReturn("clear")
         => /\ cache = EmptyDict
            /\ Construct(file) = <<"live", EmptyDict, ReturnedNone>>
    /\ \A u \in URLS :
         (durable[u] = "cleared" /\ inst = "live")
            => /\ GetEffect(cache, u, hits, misses)
                    = <<hits, misses + 1, ReturnedNone>>
               /\ FreshView(u) = ReturnedNone

\* u1 is still a miss after a clear and a set of u2
C6_Witness ==
    /\ durable["u1"] = "cleared"
    /\ durable["u2"] = "set"
    /\ lastOp = Op("get", "u1")
    /\ ret = ReturnedNone
    /\ gets = 1
    /\ Probe(cache, "u2") = "yes"

\* C7: once set(url, r) has returned, url stays in the cache until the next
\* clear: no get, set or restart removes it.
C7_EntriesNeverExpire ==
    \A u \in URLS :
        (durable[u] = "set" /\ inst = "live") => Probe(cache, u) = "yes"

\* a get adds 1 to exactly one counter
GetCountsOnce ==
    \A u \in URLS :
        Get(u) => \/ (hits' = hits + 1 /\ misses' = misses)
                  \/ (hits' = hits /\ misses' = misses + 1)

\* set and clear leave the counters alone
WritesKeepCounters ==
    (\/ \E u \in URLS, r \in Results, io \in SaveOutcomes : Set(u, r, io)
     \/ \E io \in SaveOutcomes : Clear(io))
        => (hits' = hits /\ misses' = misses)

\* C8: hits and misses are 0 at construction, never negative, every get
\* adds 1 to exactly one of them so that they add up to the number of get
\* calls made on the instance, and set and clear leave them unchanged.
C8_CountersCountGets ==
    /\ [](/\ hits >= 0
          /\ misses >= 0
          /\ hits + misses = gets
          /\ lastOp.op = "construct" => (hits = 0 /\ misses = 0))
    /\ [][GetCountsOnce /\ WritesKeepCounters]_vars

\* C9: hit_rate is 0 when there were no lookups and hits/(hits+misses)*100
\* otherwise, so it lies between 0 and 100; 3 hits and 1 miss give 75,
\* 0 and 4 give 0, 1 and 1 give 50.
C9_HitRate ==
    lastOp.op = "hit_rate"
        => /\ rate.den > 0
           /\ (hits + misses = 0) => rate.num = 0
           /\ (hits + misses > 0)
                => rate.num * (hits + misses) = hits * 100 * rate.den
           /\ 0 <= rate.num
           /\ rate.num <= 100 * rate.den
           /\ (hits = 3 /\ misses = 1) => rate.num = 75 * rate.den
           /\ (hits = 0 /\ misses = 4) => rate.num = 0
           /\ (hits = 1 /\ misses = 1) => rate.num = 50 * rate.den

\* the rate read with 3 hits and 1 miss on the counters
C9_Witness ==
    /\ lastOp.op = "hit_rate"
    /\ hits = 3
    /\ misses = 1
    /\ rate.num = 75 * rate.den

\* C10: every track_request that returns appends exactly one record and
\* changes no earlier one; total_cost is the sum of the records' costs;
\* get_summary reports the number of records and the sums of their costs
\* and token counts.
C10_LedgerConsistent ==
    /\ [](/\ total_cost = SumOf(requests, "cost")
          /\ lastOp.op = "get_summary"
               => /\ summary.total_requests = Len(requests)
                  /\ summary.total_cost = SumOf(requests, "cost")
                  /\ summary.total_input_tokens = SumOf(requests, "input_tokens")
                  /\ summary.total_output_tokens = SumOf(requests, "output_tokens"))
    /\ [][\A pm \in TrackedModels, i \in TokenCounts, o \in TokenCounts :
            (Track(pm[1], pm[2], i, o) /\ ret'.kind = "value")
               => /\ Len(requests') = Len(requests) + 1
                  /\ SubSeq(requests', 1, Len(requests)) = requests
                  /\ requests'[Len(requests')].input_tokens = i
                  /\ requests'[Len(requests')].output_tokens = o
                  /\ requests'[Len(requests')].cost = ret'.val
                  /\ total_cost' = total_cost + ret'.val]_vars

\* a summary taken of a ledger of three records of two providers
C10_Witness ==
    /\ lastOp.op = "get_summary"
    /\ Len(requests) = 3
    /\ requests[1].provider # requests[2].provider
    /\ summary.total_requests = 3
    /\ summary.total_input_tokens = 200
    /\ total_cost > 0

\* C1: in one process, once summarize_article has returned a result for a
\* URL, a further call for that URL (with no clear in between) makes no
\* LLM call, appends nothing to the cost ledger and returns the same
\* result; the call that first produced the result on a miss made one
\* summarization call and one sentiment call.
C1_SecondCallFromCache ==
    lastOp.op = "summarize_article"
        => /\ before.done.set
                => /\ openai_calls = before.openai_calls
                   /\ anthropic_calls = before.anthropic_calls
                   /\ requests = before.requests
                   /\ total_cost = before.total_cost
                   /\ ret = Returned(before.done.val)
           /\ (~before.done.set /\ done[lastOp.url].set
                  /\ misses = before.misses + 1)
                => /\ openai_calls = before.openai_calls + 1
                   /\ anthropic_calls = before.anthropic_calls + 1
                   /\ Len(requests) = Len(before.requests) + 2

\* the second call for u1 came back from the cache after one call of each
\* LLM
C1_Witness ==
    /\ lastOp = Op("summarize_article", "u1")
    /\ before.done.set
    /\ done["u1"].set
    /\ db["u1"].set
    /\ ret = Returned(done["u1"].val)
    /\ gets = 2
    /\ hits = 1
    /\ misses = 1
    /\ openai_calls = 1
    /\ anthropic_calls = 1
    /\ Len(requests) = 2

\* C11: check_budget(limit) raises the budget-exceeded error exactly when
\* total_cost > limit and returns normally when total_cost <= limit; in
\* both cases the ledger and total_cost are as they were before the call.
C11_BudgetCheck ==
    /\ [](lastOp.op = "check_budget"
            => /\ (ret = Raised("BudgetExceeded")) <=> (total_cost > lastOp.limit)
               /\ (total_cost <= lastOp.limit) => ret = ReturnedNone)
    /\ [][\A limit \in BudgetLimits :
            CheckBudget(limit)
               => /\ requests' = requests
                  /\ total_cost' = total_cost]_vars

\* a check that passed with total_cost exactly at the limit
C11_Witness ==
    /\ lastOp.op = "check_budget"
    /\ total_cost = lastOp.limit
    /\ total_cost > 0
    /\ Len(requests) > 0
    /\ ret = ReturnedNone

\* C12: track_request for a provider/model pair that is not in the price
\* table raises the configuration error: it returns no cost, appends no
\* record and leaves total_cost alone.
C12_UnknownModelFails ==
    [][\A pm \in TrackedModels, i \in TokenCounts, o \in TokenCounts :
         (Track(pm[1], pm[2], i, o) /\ ~Priced(pm[1], pm[2]))
            => /\ ret' = Raised("ValueError")
               /\ requests' = requests
               /\ total_cost' = total_cost]_vars

\* an unknown model was refused after two requests had been booked
C12_Witness ==
    /\ lastOp.op = "track_request"
    /\ ret = Raised("ValueError")
    /\ Len(requests) = 2
    /\ total_cost > 0

\* C13: when the summarization call or the sentiment call fails for an
\* article that missed the cache, the attempt writes nothing: the cache map
\* and its file are as before and hold no entry for the URL, and the
\* article store is as before.
C13_FailureWritesNothing ==
    [][(lastOp'.op = "summarize_article" /\ ret' = Raised("LLMError"))
          => /\ cache' = cache
             /\ file' = file
             /\ Probe(cache', lastOp'.url) = "no"
             /\ db' = db
             /\ done' = done]_vars

\* the sentiment call failed for u2 after u1 had been cached and stored
C13_Witness ==
    /\ lastOp = Op("summarize_article", "u2")
    /\ ret = Raised("LLMError")
    /\ anthropic_calls = 2
    /\ openai_calls = 2
    /\ Probe(cache, "u1") = "yes"
    /\ Probe(cache, "u2") = "no"
    /\ db["u1"].set
    /\ ~db["u2"].set

\* the successes among the attempts, in the order of the attempts
Successes(outs) ==
    LET Ok(o) == o.r.kind = "value"
        oks == SelectSeq(outs, Ok)
    IN  [i \in 1..Len(oks) |-> [url |-> oks[i].url, result |-> oks[i].r.val]]

\* C14: process_articles attempts the articles of the batch one after the
\* other in their order; an article that ends in an LLM failure is followed
\* by the next one; the list returned holds exactly the articles that came
\* back with a result, in order, and fetch_articles counts them.
C14_BatchContinues ==
    /\ pos > 0
         => /\ Len(outcomes) = pos - 1
            /\ pos <= Len(batch) + 1
    /\ \A i \in 1..Len(outcomes) : outcomes[i].url = batch[i]
    /\ \A i \in 1..Len(outcomes) :
         (outcomes[i].r = Raised("LLMError") /\ i < Len(batch))
            => (Len(outcomes) > i \/ pos = i + 1)
    /\ results = Successes(outcomes)
    /\ lastOp.op = "process_articles"
         => /\ Len(outcomes) = Len(batch)
            /\ ret = Returned(Successes(outcomes))
            /\ count = Len(Successes(outcomes))
            /\ \A i \in 1..Len(outcomes) :
                 outcomes[i].r.kind = "value" \/ outcomes[i].r = Raised("LLMError")

\* a batch of two came back with the second article only: the first ended
\* in an LLM failure
C14_Witness ==
    /\ lastOp.op = "process_articles"
    /\ batch = <<"u1", "u2">>
    /\ outcomes[1].r = Raised("LLMError")
    /\ outcomes[2].r.kind = "value"
    /\ Len(results) = 1
    /\ results[1].url = "u2"
    /\ count = 1

\* C19 as stated: after a set(url, result) whose persist step failed, the
\* call has raised, a get(url) on the same instance is a hit that returns
\* result, and a freshly constructed instance does not hold that entry.
C19_FailedPersistKeepsEntry ==
    (lastOp.op = "set" /\ ret = Raised("OSError"))
        => /\ lastSet[lastOp.url].set
           /\ GetEffect(cache, lastOp.url, hits, misses)
                = <<hits + 1, misses, Returned(lastSet[lastOp.url].val)>>
           /\ FreshView(lastOp.url) # Returned(lastSet[lastOp.url].val)

\* C19, amended: a set(url, result) whose persist step fails raises the I/O
\* error after one attempt and keeps the new entry in the map, so that a
\* get(url) on the same instance is a hit that returns result; the backing
\* file is either untouched or left unparseable, so a freshly constructed
\* instance holds that entry only if the file already held it before the
\* call.
C19_FailedPersistKeepsEntryUnlessStored ==
    [][\A u \in URLS, r \in Results, io \in SaveOutcomes \ {"ok"} :
         (Set(u, r, io) /\ cache.kind = "dict")
            => /\ ret' = Raised("OSError")
               /\ cache' = Store(cache, u, r)
               /\ GetEffect(cache', u, hits', misses')
                    = <<hits' + 1, misses', Returned(r)>>
               /\ file' = file \/ Construct(file') = <<"live", EmptyDict, ReturnedNone>>
               /\ GetEffect(Construct(file')[2], u, 0, 0)[3] = Returned(r)
                    => FreshView(u) = Returned(r)]_vars

\* a get of u1 that hit on the entry of a set that could not be persisted,
\* while a fresh instance would not find u1
C19_Witness ==
    /\ lastOp = Op("get", "u1")
    /\ lastSet["u1"].set
    /\ durable["u1"] = "unknown"
    /\ ret = Returned(lastSet["u1"].val)
    /\ hits = 1
    /\ misses = 0
    /\ FreshView("u1") = ReturnedNone

\* the URLs a save call has written a record for
SavedUrls == {u \in URLS : saved[u].set}

\* the stored records of url
RowsOf(url) == {r \in rows : r.url = url}

\* C15: the store holds at most one record per URL. A save of a URL that
\* is there replaces its title, summary and sentiment and keeps count(),
\* a save of a new URL adds 1 to count(), and get_article(url) returns the
\* record last written for the URL, or absence when none was written.
C15_OneRecordPerUrl ==
    /\ [](/\ \A r1 \in rows, r2 \in rows : r1.url = r2.url => r1 = r2
          /\ Cardinality(rows) = Cardinality(SavedUrls)
          /\ \A u \in SavedUrls :
               \E r \in RowsOf(u) : ContentOf(r) = saved[u].val
          /\ \A u \in URLS \ SavedUrls : RowsOf(u) = {}
          /\ lastOp.op = "get_article"
               => IF lastOp.url \in SavedUrls
                  THEN /\ ret.kind = "value"
                       /\ ret.val \in RowsOf(lastOp.url)
                       /\ ContentOf(ret.val) = saved[lastOp.url].val
                  ELSE ret = ReturnedNone
          /\ lastOp.op = "count"
               => ret = Returned(Cardinality(SavedUrls)))
    /\ [][(lastOp'.op = "save_article" /\ ret' = ReturnedNone)
            => Cardinality(rows')
                 = Cardinality(rows)
                     + (IF RowsOf(lastOp'.url) = {} THEN 1 ELSE 0)]_vars

\* get_article(u1) gave the second record saved for u1, the only record
\* there is
C15_Witness ==
    /\ lastOp = Op("get_article", "u1")
    /\ ret.kind = "value"
    /\ ret.val.id = 2
    /\ ret.val.title = <<"b", "_">>
    /\ calls = 2
    /\ Cardinality(rows) = 1
    /\ retired = {1}

\* keyword occurs in text, letters compared without regard to case
HasSubstring(text, keyword) ==
    \E k \in 0..(Len(text) - Len(keyword)) :
        \A i \in 1..Len(keyword) : Fold(text[k + i]) = Fold(keyword[i])

\* C16: search_articles(keyword) returns, each once, all and only the
\* stored records whose title or summary contains keyword as a substring
\* (and nothing when there is none).
C16_SearchIsSubstringMatch ==
    lastOp.op = "search_articles"
        => /\ ret.kind = "value"
           /\ ret.val \in Orderings({r \in rows :
                                       \/ HasSubstring(r.title, lastOp.keyword)
                                       \/ HasSubstring(r.summary, lastOp.keyword)})

\* the list get_all_articles returned
Listed == ret.val

C18_FailedBatchLeavesNothing ==
    \A r \in rows \cup disk : r.call \notin failed

ExplicitPhrases(lower) ==
    {lower[x] : x \in {x \in 1..Len(lower) :
        /\ lower[x] \in VocabularyWords
        /\ \E p \in 1..(x - 2) :
              /\ lower[p] = "sentiment"
              /\ lower[p + 1] = ":"
              /\ \A i \in (p + 2)..(x - 1) : lower[i] \in {" ", "*"}}}

\* C22: extract_sentiment returns one of positive, negative, neutral,
\* mixed, unknown; unknown for an empty or missing text; the X of an
\* explicit "sentiment: X" phrase when the text has one, whatever other
\* vocabulary words it holds; otherwise the first word of the vocabulary
\* that occurs in the text; otherwise unknown.
C22_SentimentCategory ==
    lastOp.op = "extract_sentiment"
        => LET lower == Lower(lastOp.text.tokens)
           IN  /\ ret.kind = "value"
               /\ ret.val \in VocabularyWords \cup {"unknown"}
               /\ (~lastOp.text.given \/ lastOp.text.tokens = <<>>)
                    => ret.val = "unknown"
               /\ ExplicitPhrases(lower) # {}
                    => ret.val \in ExplicitPhrases(lower)
               /\ (lastOp.text.given /\ ExplicitPhrases(lower) = {})
                    => ret.val = FirstKeyword(lower)


\* two ResponseCache instances are live on the backing file
BothLive == inst = "live" /\ peer.inst = "live"

\* C21 as stated: with two live instances on one backing file, the file
\* equals the map of the instance whose set or clear wrote it last, and a get on an instance returns for a URL exactly
\* the entry the instance loaded at its construction or stored itself.
C21_FileIsLastWritersMap ==
    /\ BothLive /\ writer.who # 0
           => file = JsonFile(Dump(MapOf(writer.who)))
    /\ lastOp.op = "get" /\ ret.kind = "value"
           => seen[actor][lastOp.url] = Entry(ret.val)
    /\ lastOp.op = "get" /\ ret = ReturnedNone
           => seen[actor][lastOp.url] = NoEntry

\* C21: with two live instances on one backing file, as long as no persist
\* step has failed on the file since its last rewrite, the file equals the
\* map of the instance whose set or clear wrote it last (the other
\* instance's entries are gone from it), and a get on an instance returns
\* for a URL exactly the entry the instance loaded at its construction or
\* stored itself since, never one the other instance wrote later.
C21_FileIsLastWritersMapUnlessFailed ==
    /\ BothLive /\ writer.who # 0 /\ writer.clean
           => file = JsonFile(Dump(MapOf(writer.who)))
    /\ lastOp.op = "get" /\ ret.kind = "value"
           => seen[actor][lastOp.url] = Entry(ret.val)
    /\ lastOp.op = "get" /\ ret = ReturnedNone
           => seen[actor][lastOp.url] = NoEntry

\* instance 2 wrote the file last and holds an entry for a URL in it that
\* instance 1, live, has just looked up and missed; instance 1's own
\* entries are not in the file
C21_Witness ==
    /\ BothLive
    /\ writer = [who |-> 2, clean |-> TRUE]
    /\ actor = 1 /\ lastOp.op = "get" /\ ret = ReturnedNone
    /\ EntriesOf(peer.cache)[lastOp.url].set
    /\ \E u \in URLS : EntriesOf(cache)[u].set /\ ~EntriesOf(peer.cache)[u].set

====
